---------------------------- MODULE Spec2Model ----------------------------
(***************************************************************************)
(* Model of the virtual try-on proxy: the four processing entry points     *)
(*   "route"  routes/virtualTryOn.js backed by services/VirtualTryOnService*)
(*   "vton"   api/vton-process.js                                          *)
(*   "proc"   api/process.js                                               *)
(*   "server" server.js  POST /api/vton/process                            *)
(* Each request runs on the single-threaded event loop: the code between   *)
(* two awaits is one atomic action.                                        *)
(*                                                                         *)
(* An error message is a sequence of words; String.includes is membership  *)
(* of the keyword in the substrings of one of the words (Sub), and         *)
(* String.toLowerCase maps every word to its lower-case form (Lower).      *)
(* A payload is modelled by its length (0 = missing or empty).             *)
(* fs.writeFileSync either writes the file or throws leaving no file.      *)
(***************************************************************************)
EXTENDS Integers, Sequences, FiniteSets, TLC

\* ------------------------------------------------------------------ bounds
Req == {1, 2}

MaxProm == 3

MaxMsgLen == 2

MaxBytes == 3

\* --------------------------------------------------------------- constants
MinLen == 100

retryAttempts == 2

BackoffBase == 2000

EP == {"route", "vton", "proc", "server"}

Variants == {"vton", "proc", "server"}

Files == {"person", "cloth"}

Payloads == {0, MinLen - 1, MinLen}

RemoteWords == {"429", "QUOTA", "401", "Unauthorized", "ECONNREFUSED", "boom"}

RECURSIVE SeqsUpTo(_, _)
SeqsUpTo(S, n) ==
    IF n = 0 THEN {<<>>}
    ELSE LET shorter == SeqsUpTo(S, n - 1)
         IN  shorter \cup {Append(s, w) : s \in {t \in shorter : Len(t) = n - 1}, w \in S}

\* messages of the errors the remote backend (connect, predict, download) raises
RemoteMsgs == SeqsUpTo(RemoteWords, MaxMsgLen) \ {<<>>}

\* message of a file-system error raised by fs.writeFileSync
FsMsg == <<"ENOSPC">>

\* the message of a rejection value that has no message property (an object
\* such as a Gradio status event): error.message is undefined
NoMessage == <<>>

\* message of the TypeError raised by reading a property of undefined
TypeErrorMsg == <<"Cannot read properties of undefined">>

\* the byte values a result image is made of, and its greatest length
ByteVals == {0, 77, 255}

\* the contents a fetched result can have
Buffers == SeqsUpTo(ByteVals, MaxBytes)

\* ------------------------------------------------------- string operations
\* the keywords (as the code spells them) that are substrings of a word
Sub(w) ==
    CASE w = "Gradio_Prediction_Timeout" -> {"Gradio_Prediction_Timeout", "Timeout"}
      [] w = "gradio_prediction_timeout" -> {"gradio_prediction_timeout", "timeout"}
      [] w = "Processing_Timeout"        -> {"Processing_Timeout", "Timeout"}
      [] w = "processing_timeout"        -> {"processing_timeout", "timeout"}
      [] w = "overloaded"                -> {"overloaded", "overload"}
      [] w = "Invalid_Result_From_Gradio" -> {"Invalid_Result_From_Gradio", "Invalid_Result"}
      [] OTHER                           -> {w}

\* String.prototype.toLowerCase on one word
Lower(w) ==
    CASE w = "QUOTA"                     -> "quota"
      [] w = "Unauthorized"              -> "unauthorized"
      [] w = "ECONNREFUSED"              -> "econnrefused"
      [] w = "ENOSPC"                    -> "enospc"
      [] w = "HF_TOKEN"                  -> "hf_token"
      [] w = "Gradio_Prediction_Timeout" -> "gradio_prediction_timeout"
      [] w = "Processing_Timeout"        -> "processing_timeout"
      [] w = "Invalid_Result_From_Gradio" -> "invalid_result_from_gradio"
      [] w = "Authentication failed"     -> "authentication failed"
      [] w = "AI service connection failed" -> "ai service connection failed"
      [] w = "Invalid or empty result"   -> "invalid or empty result"
      [] w = "Could not extract image URL" -> "could not extract image url"
      [] w = "Failed_Download"           -> "failed_download"
      [] w = "Failed to download result image" -> "failed to download result image"
      [] w = "Unknown error"             -> "unknown error"
      [] OTHER                           -> w

toLowerCase(m) == [i \in 1..Len(m) |-> Lower(m[i])]

includes(m, kw) == \E i \in 1..Len(m) : kw \in Sub(m[i])

\* ------------------------------------------------- messages the code builds
\* 'Gradio_Prediction_Timeout' / 'Processing_Timeout'
GradioTimeoutMsg == <<"Gradio_Prediction_Timeout">>

ProcessingTimeoutMsg == <<"Processing_Timeout">>

\* 'Processing timed out. The AI service may be overloaded or asleep.'
ServiceTimedOutMsg == <<"timed out", "overloaded", "asleep">>

\* 'Authentication failed. Check HF_TOKEN.'
ServiceAuthMsg == <<"Authentication failed", "HF_TOKEN">>

\* 'Could not extract image URL from Gradio response'
ServiceExtractMsg == <<"Could not extract image URL">>

\* 'HF_TOKEN environment variable is not set.'
TokenMissingMsg == <<"HF_TOKEN", "environment variable is not set">>

\* 'Invalid_Result_From_Gradio'
VtonInvalidMsg == <<"Invalid_Result_From_Gradio">>

\* 'Processing timed out after 3 minutes. The AI service may be overloaded or asleep.'
VariantTimedOutMsg == <<"timed out", "overloaded", "asleep">>

\* 'Authentication failed. Please check if your HF_TOKEN is valid...'
VariantAuthMsg == <<"Authentication failed", "HF_TOKEN">>

\* 'Invalid or empty result from Gradio API'
VariantInvalidMsg == <<"Invalid or empty result">>

\* ------------------------------------------------------ request validation
\* mutation: only a body with both fields missing is rejected
MissingBoth(p, c) == p = 0 /\ c = 0

\* !a || !b
Missing(p, c) == p = 0 \/ c = 0

\* mutation: the threshold is off by one
TooSmallOffByOne(p, c) == p < MinLen - 1 \/ c < MinLen - 1

\* a.length < 100 || b.length < 100   (Express route only)
TooSmall(p, c) == p < MinLen \/ c < MinLen

\* does the entry point reject the body with 400 before any staging?
Rejects(e, p, c) ==
    \/ Missing(p, c)
    \/ e = "route" /\ TooSmall(p, c)

\* ------------------------------------------------------ error classification
\* mutation: a timed-out attempt is retried like any other failure
ServiceRetryAlways(attempt, m) == attempt < retryAttempts

\* VirtualTryOnService.callGradioAPI catch: retry this attempt?
ServiceShouldRetry(attempt, m) ==
    attempt < retryAttempts /\ ~includes(m, "Gradio_Prediction_Timeout")

\* VirtualTryOnService.callGradioAPI catch: the error finally thrown
ServiceFinalError(m) ==
    IF includes(m, "Gradio_Prediction_Timeout") THEN ServiceTimedOutMsg
    ELSE IF includes(toLowerCase(m), "401") \/ includes(toLowerCase(m), "unauthorized")
         THEN ServiceAuthMsg
    ELSE m

\* routes/virtualTryOn.js catch
RouteClassify(m) ==
    IF includes(m, "timed out") \/ includes(m, "asleep")
      THEN [status |-> 504, errorType |-> "none"]
    ELSE IF includes(m, "Authentication failed")
      THEN [status |-> 401, errorType |-> "none"]
    ELSE IF includes(m, "AI service connection failed")
      THEN [status |-> 503, errorType |-> "none"]
    ELSE [status |-> 500, errorType |-> "none"]

VtonQuotaKeywords ==
    {"zerogpu", "quota", "overload", "unavailable", "rate limit", "too many",
     "429", "timeout", "asleep", "processing_timeout"}

ProcQuotaKeywords ==
    {"zerogpu quota", "quota", "out of quota", "daily quota", "rate limit",
     "too many requests", "429", "generic error", "overload"}

ServerQuotaKeywords ==
    {"zerogpu quota", "quota", "out of quota", "daily quota", "rate limit",
     "too many requests", "429", "generic error"}

\* isQuotaError with the keyword list of one file
isQuotaError(keywords, m) ==
    m # <<>> /\ \E kw \in keywords : includes(toLowerCase(m), kw)

\* api/vton-process.js handler catch
VtonClassify(m) ==
    LET errorMsg == IF m = <<>> THEN <<"Unknown error">> ELSE m
    IN  IF includes(errorMsg, "HF_TOKEN")
          THEN [status |-> 500, errorType |-> "error"]
        ELSE IF includes(errorMsg, "Processing_Timeout")
          THEN [status |-> 504, errorType |-> "error"]
        ELSE IF isQuotaError(VtonQuotaKeywords, errorMsg)
          THEN [status |-> 429, errorType |-> "quota_limit"]
        ELSE [status |-> 500, errorType |-> "error"]

\* api/process.js processVirtualTryOn catch: the "safe" error re-thrown
ProcTranslate(m) ==
    LET errorMessage == IF m = GradioTimeoutMsg THEN VariantTimedOutMsg
                        ELSE IF m # <<>> THEN m
                        ELSE <<"An unknown error occurred">>
    IN  IF includes(toLowerCase(errorMessage), "401")
           \/ includes(toLowerCase(errorMessage), "unauthorized")
        THEN VariantAuthMsg
        ELSE errorMessage

\* api/process.js handler catch
ProcClassify(m) ==
    IF isQuotaError(ProcQuotaKeywords, m)
      THEN [status |-> 429, errorType |-> "quota_limit"]
    ELSE IF includes(m, "Authentication failed") \/ includes(m, "unauthorized")
      THEN [status |-> 401, errorType |-> "error"]
    ELSE IF includes(m, "timed out") \/ includes(m, "Timeout")
      THEN [status |-> 504, errorType |-> "error"]
    ELSE IF includes(m, "ECONNREFUSED") \/ includes(m, "Failed to fetch")
      THEN [status |-> 503, errorType |-> "error"]
    ELSE [status |-> 500, errorType |-> "error"]

\* server.js processVirtualTryOn catch (errors carrying a message)
ServerTranslate(m) ==
    LET errorMessage == IF m = GradioTimeoutMsg THEN VariantTimedOutMsg
                        ELSE IF m # <<>> THEN m
                        ELSE <<"An unknown error occurred">>
    IN  IF includes(toLowerCase(errorMessage), "401")
           \/ includes(toLowerCase(errorMessage), "unauthorized")
        THEN VariantAuthMsg
        ELSE errorMessage

\* server.js POST /api/vton/process catch
ServerClassify(m) ==
    IF isQuotaError(ServerQuotaKeywords, m)
       \/ includes(m, "The AI service returned a generic error")
      THEN [status |-> 429, errorType |-> "quota_limit"]
    ELSE IF includes(m, "Authentication failed") \/ includes(m, "unauthorized")
      THEN [status |-> 401, errorType |-> "error"]
    ELSE IF includes(m, "timed out") \/ includes(m, "Timeout")
      THEN [status |-> 504, errorType |-> "error"]
    ELSE IF includes(m, "ECONNREFUSED") \/ includes(m, "Failed to fetch")
      THEN [status |-> 503, errorType |-> "error"]
    ELSE [status |-> 500, errorType |-> "error"]

\* the error as it reaches the outer handler of a variant
VariantTranslate(e, m) ==
    CASE e = "vton"   -> m
      [] e = "proc"   -> ProcTranslate(m)
      [] e = "server" -> ServerTranslate(m)

\* status and errorType of the error response of an entry point
Classify(e, m) ==
    CASE e = "route"  -> RouteClassify(m)
      [] e = "vton"   -> VtonClassify(m)
      [] e = "proc"   -> ProcClassify(m)
      [] e = "server" -> ServerClassify(m)


\* ----------------------------------------------------------- result shapes
\* a field of the first output entry: absent/empty, an http URL, a local path
Refs == {"", "http", "local"}

\* result.data[0]: no entry at all, a plain string, or an object
Items ==
    {[kind |-> "none", name |-> "", url |-> "", path |-> ""]}
    \cup {[kind |-> "str", name |-> s, url |-> "", path |-> ""] : s \in Refs}
    \cup {[kind |-> "obj", name |-> n, url |-> u, path |-> q] : n \in Refs, u \in Refs, q \in Refs}

\* no predict result has been received
NoItem == [kind |-> "unset", name |-> "", url |-> "", path |-> ""]

\* VirtualTryOnService.callGradioAPI: imageUrl ("" when none)
ServiceExtract(it) ==
    CASE it.kind = "obj" -> (IF it.url # "" THEN it.url ELSE it.path)
      [] it.kind = "str" -> it.name
      [] OTHER           -> ""

\* mutation: the url field is preferred to the name field
VariantExtractUrlFirst(it) ==
    CASE it.kind = "none"               -> ""
      [] it.kind = "obj" /\ it.url # ""  -> it.url
      [] it.kind = "str"                -> it.name
      [] it.kind = "obj"                -> it.name
      [] OTHER                          -> ""

\* processVirtualTryOn (vton-process.js, process.js, server.js): outputPath
VariantExtract(it) ==
    CASE it.kind = "none"               -> ""
      [] it.kind = "obj" /\ it.name # "" -> it.name
      [] it.kind = "str"                -> it.name
      [] it.kind = "obj"                -> it.url
      [] OTHER                          -> ""

\* is the result fetched with an HTTP GET?  The service always calls
\* axios.get; the variants test outputPath.startsWith('http')
UsesHttp(e, ref) == e = "route" \/ ref = "http"

\* the error thrown when nothing could be extracted
InvalidMsg(e) ==
    CASE e = "route" -> ServiceExtractMsg
      [] e = "vton"  -> VtonInvalidMsg
      [] OTHER       -> VariantInvalidMsg

\* the timeout error the timer callback rejects with
TimeoutMsg(e) == IF e = "vton" THEN ProcessingTimeoutMsg ELSE GradioTimeoutMsg

\* ------------------------------------------------------------------ cleanup
\* mutation: the variants with one try block unlink the person file only
AttemptedPersonOnly(e, paths, files, df) ==
    IF e \in {"route", "vton"} THEN paths \cap files ELSE paths \cap files \cap {"person"}

\* the unlink calls the cleanup block makes, given the path variables it holds,
\* the files on disk and the set df of files whose unlink throws
Attempted(e, paths, files, df) ==
    IF e \in {"route", "vton"}
    THEN paths \cap files                          \* one try/catch per file
    ELSE IF "person" \in (paths \cap files) /\ "person" \in df
         THEN {"person"}                           \* one try around both unlinks
         ELSE paths \cap files

\* mutation: the garment file is never removed
RemainingGarmentKept(e, paths, files, df) == files \ {"person"}

\* files of the request left on disk after the cleanup block
Remaining(e, paths, files, df) == files \ (Attempted(e, paths, files, df) \ df)

\* did some unlink of the cleanup block throw?
Threw(e, paths, files, df) == Attempted(e, paths, files, df) \cap df # {}

\* -------------------------------------------------------------------- state
VARIABLES
    req,                \* per request: the handler's locals and its position
    client,             \* per entry point: the cached handle (0 = null)
    clientInitPromise,  \* vton-process.js: in-flight initialization (0 = null)
    prom,               \* the connect promises created so far
    nextProm,           \* next unused promise id
    hfToken,            \* is HF_TOKEN configured?
    entry,              \* the program that runs: an entry point, or the widget script
    health,             \* the health request being served, if any
    window              \* the browser page that loads public/widget.js

vars == <<req, client, clientInitPromise, prom, nextProm, hfToken, entry, health, window>>

Proms == 1..MaxProm

IdleReq ==
    [pc |-> "idle", ep |-> "none", person |-> 0, cloth |-> 0,
     paths |-> {}, files |-> {}, created |-> {}, attempt |-> 0,
     awaiting |-> 0, handle |-> 0, joined |-> 0, timer |-> "none",
     predictCall |-> "none", delay |-> 0,
     item |-> NoItem, ref |-> "", via |-> "none",
     nConnect |-> 0, nPredict |-> 0, timedOut |-> FALSE,
     cause |-> "none", remoteErr |-> <<>>,
     status |-> 0, errorType |-> "none", delFailed |-> FALSE, delFailures |-> {},
     ownError |-> FALSE, responses |-> 0,
     got |-> FALSE, fetched |-> <<>>, result |-> <<>>]

UnusedProm == [st |-> "unused", ep |-> "none", net |-> FALSE, err |-> <<>>]

\* the programs of the repository: the four entry points and the widget script
Programs == EP \cup {"widget"}

\* no health request in progress
IdleHealth == [pc |-> "idle", awaiting |-> 0, status |-> 0, configured |-> FALSE]

\* a page before public/widget.js runs: window.VTON is undefined (0 = no
\* such method; otherwise the number of the script block whose closure the
\* method belongs to), and each block's globalTargetSelector is null
NewWindow ==
    [loaded |-> FALSE, VTON |-> [init |-> 0, process |-> 0],
     globalTargetSelector |-> <<"", "">>, call |-> "none"]

Init ==
    /\ req = [r \in Req |-> IdleReq]
    /\ client = [e \in EP |-> 0]
    /\ clientInitPromise = 0
    /\ prom = [p \in Proms |-> UnusedProm]
    /\ nextProm = 1
    /\ hfToken \in BOOLEAN
    /\ entry \in Programs
    /\ health = IdleHealth
    /\ window = NewWindow

\* mutation: an unlink error replaces the outcome of the request
AfterCleanupEscalates(st, threw) ==
    IF threw THEN [status |-> 500, errorType |-> "error"] ELSE st

\* the catch of the cleanup block only logs: the outcome st reached before
\* the cleanup is the one that leaves the function
AfterCleanup(st, threw) == st

\* --------------------------------------------------------- request endings
\* the cleanup block runs, then the handler sends the response st
Done(rec, st, df) ==
    [rec EXCEPT !.pc = "done", !.awaiting = 0, !.responses = @ + 1,
                !.files = Remaining(rec.ep, rec.paths, rec.files, df),
                !.delFailed = Threw(rec.ep, rec.paths, rec.files, df),
                !.delFailures = Attempted(rec.ep, rec.paths, rec.files, df) \cap df,
                !.status = AfterCleanup(st, Threw(rec.ep, rec.paths, rec.files, df)).status,
                !.errorType = AfterCleanup(st, Threw(rec.ep, rec.paths, rec.files, df)).errorType]

Noted(rec, m, cause) ==
    [rec EXCEPT !.cause = cause,
                !.remoteErr = IF cause \in {"connect", "predict", "download"} THEN m ELSE <<>>]

\* a variant's processVirtualTryOn throws m: catch, finally, handler catch
VariantFail(rec, m, cause, df) ==
    Done(Noted(rec, m, cause), Classify(rec.ep, VariantTranslate(rec.ep, m)), df)

\* callGradioAPI catch: Math.pow(2, attempt) * 2000, the wait in milliseconds
\* before the attempt that follows attempt number `attempt`
BackoffDelay(attempt) == (2 ^ attempt) * BackoffBase

\* mutation: the timer of the attempt is left armed
ClearTimerNever(t) == t

\* clearTimeout(timeoutId): a pending timer is cancelled
ClearTimer(t) == IF t = "pending" THEN "cleared" ELSE t

\* callGradioAPI catch: back off and retry, or translate and throw to the
\* route.  For a rejection value without a message, error.message.includes
\* raises a TypeError inside the catch block; that error leaves callGradioAPI
\* and is the one the route classifies.
ServiceFail(rec, m, cause, df) ==
    LET rec1 == [Noted(rec, m, cause) EXCEPT !.timer = ClearTimer(@)]
    IN  IF m = NoMessage
        THEN Done([rec1 EXCEPT !.ownError = TRUE], RouteClassify(TypeErrorMsg), df)
        ELSE IF ServiceShouldRetry(rec.attempt, m)
        THEN [rec1 EXCEPT !.pc = "backoff", !.awaiting = 0,
                          !.delay = BackoffDelay(rec.attempt)]
        ELSE Done(rec1, RouteClassify(ServiceFinalError(m)), df)

Fail(rec, m, cause, df) ==
    IF rec.ep = "route" THEN ServiceFail(rec, m, cause, df)
    ELSE VariantFail(rec, m, cause, df)

\* client.predict(...) is called and the timeout timer is armed
StartPredict(rec, h) ==
    [rec EXCEPT !.pc = "predict", !.awaiting = 0, !.handle = h,
                !.timer = "pending", !.predictCall = "pending",
                !.nPredict = @ + 1]

\* ------------------------------------------------------- client acquisition
\* initializeClient (service) and getGradioClient (process.js, server.js):
\* no in-flight guard, every caller that sees no cached client connects
AcquirePlain(r, rec) ==
    IF client[rec.ep] # 0
    THEN /\ req' = [req EXCEPT ![r] = StartPredict(rec, client[rec.ep])]
         /\ UNCHANGED <<client, clientInitPromise, prom, nextProm>>
    ELSE /\ nextProm <= MaxProm
         /\ prom' = [prom EXCEPT ![nextProm] =
                        [st |-> "pending", ep |-> rec.ep, net |-> TRUE, err |-> <<>>]]
         /\ nextProm' = nextProm + 1
         /\ req' = [req EXCEPT ![r] =
                        [rec EXCEPT !.pc = "init", !.awaiting = nextProm,
                                    !.joined = nextProm, !.nConnect = @ + 1]]
         /\ UNCHANGED <<client, clientInitPromise>>

\* mutation: the in-flight promise is ignored
AcquireVtonUnguarded(r, rec, df) == AcquirePlain(r, rec)

\* getGradioClient of api/vton-process.js
AcquireVton(r, rec, df) ==
    IF client["vton"] # 0
    THEN /\ req' = [req EXCEPT ![r] = StartPredict(rec, client["vton"])]
         /\ UNCHANGED <<client, clientInitPromise, prom, nextProm>>
    ELSE IF clientInitPromise # 0
    THEN \* return the promise already there
         /\ req' = [req EXCEPT ![r] =
                IF prom[clientInitPromise].st = "fail"
                THEN VariantFail([rec EXCEPT !.joined = clientInitPromise],
                                 prom[clientInitPromise].err, "init", df)
                ELSE [rec EXCEPT !.pc = "init", !.awaiting = clientInitPromise,
                                 !.joined = clientInitPromise]]
         /\ UNCHANGED <<client, clientInitPromise, prom, nextProm>>
    ELSE /\ nextProm <= MaxProm
         /\ nextProm' = nextProm + 1
         /\ clientInitPromise' = nextProm
         /\ UNCHANGED client
         /\ IF hfToken
            THEN /\ prom' = [prom EXCEPT ![nextProm] =
                        [st |-> "pending", ep |-> "vton", net |-> TRUE, err |-> <<>>]]
                 /\ req' = [req EXCEPT ![r] =
                        [rec EXCEPT !.pc = "init", !.awaiting = nextProm,
                                    !.joined = nextProm, !.nConnect = @ + 1]]
            ELSE \* the async body throws before its first await: its catch
                 \* nulls both variables, then the outer assignment stores
                 \* the rejected promise in clientInitPromise
                 /\ prom' = [prom EXCEPT ![nextProm] =
                        [st |-> "fail", ep |-> "vton", net |-> FALSE, err |-> TokenMissingMsg]]
                 /\ req' = [req EXCEPT ![r] =
                        VariantFail([rec EXCEPT !.joined = nextProm],
                                    TokenMissingMsg, "init", df)]

Acquire(r, rec, df) ==
    IF rec.ep = "vton" THEN AcquireVton(r, rec, df) ELSE AcquirePlain(r, rec)


\* messages of the errors Client.connect rejects with
ConnectMsgs == {m \in RemoteMsgs : Len(m) = 1}

\* message of a file-system error raised by fs.readFileSync
FsReadMsg == <<"ENOENT">>

\* the error as it reaches the outermost handler
Translate(e, m) == IF e = "route" THEN m ELSE VariantTranslate(e, m)

OK200 == [status |-> 200, errorType |-> "none"]

\* 6-bit groups of one to three bytes; 64 stands for the padding character
Base64Group(g) ==
    LET n == g[1] * 65536 + (IF Len(g) > 1 THEN g[2] * 256 ELSE 0)
                          + (IF Len(g) > 2 THEN g[3] ELSE 0)
    IN  << n \div 262144,
           (n \div 4096) % 64,
           IF Len(g) > 1 THEN (n \div 64) % 64 ELSE 64,
           IF Len(g) > 2 THEN n % 64 ELSE 64 >>

\* mutation: a trailing group of fewer than three bytes is dropped
bufferToBase64Truncating(buffer) ==
    LET n == Len(buffer)
        group(k) == SubSeq(buffer, 3 * k - 2, 3 * k)
    IN  [i \in 1..(4 * (n \div 3)) |-> Base64Group(group((i + 3) \div 4))[((i - 1) % 4) + 1]]

\* buffer.toString('base64'): four characters for every group of three
\* bytes, the last group padded
bufferToBase64(buffer) ==
    LET n == Len(buffer)
        group(k) == SubSeq(buffer, 3 * k - 2, IF 3 * k < n THEN 3 * k ELSE n)
    IN  [i \in 1..(4 * ((n + 2) \div 3)) |->
            Base64Group(group((i + 3) \div 4))[((i - 1) % 4) + 1]]

\* the result bytes b have been obtained and are encoded for the response
\* (the entry the reference was taken from is out of use by now)
Fetched(rec, b) ==
    [rec EXCEPT !.got = TRUE, !.fetched = b, !.result = bufferToBase64(b),
                !.item = NoItem]

BadRequest == [status |-> 400, errorType |-> "none"]

\* ------------------------------------------------------------------ actions
\* a POST arrives: validation, staging of the two temp files, and the start
\* of the client acquisition, up to the handler's first real suspension
Arrive(r, I) ==
    /\ req[r].pc = "idle"
    /\ \E e \in {entry} \cap EP, p \in I.payloads, c \in I.payloads :
         LET base == [IdleReq EXCEPT !.ep = e, !.person = p, !.cloth = c]
         IN  IF Rejects(e, p, c)
             THEN /\ req' = [req EXCEPT ![r] =
                        [base EXCEPT !.pc = "done", !.cause = "validation",
                                     !.responses = @ + 1,
                                     !.status = BadRequest.status]]
                  /\ UNCHANGED <<client, clientInitPromise, prom, nextProm>>
             ELSE \E stage \in I.stages, df \in I.dfs :
                    CASE stage = "person" ->
                           \* the first writeFileSync throws
                           /\ req' = [req EXCEPT ![r] =
                                Done(Noted([base EXCEPT
                                              !.paths = IF e = "route" THEN {} ELSE Files],
                                           FsMsg, "stage"),
                                     Classify(e, Translate(e, FsMsg)), df)]
                           /\ UNCHANGED <<client, clientInitPromise, prom, nextProm>>
                      [] stage = "cloth" ->
                           \* the second writeFileSync throws
                           /\ req' = [req EXCEPT ![r] =
                                Done(Noted([base EXCEPT
                                              !.paths = IF e = "route" THEN {"person"} ELSE Files,
                                              !.files = {"person"},
                                              !.created = {"person"}],
                                           FsMsg, "stage"),
                                     Classify(e, Translate(e, FsMsg)), df)]
                           /\ UNCHANGED <<client, clientInitPromise, prom, nextProm>>
                      [] OTHER ->
                           Acquire(r, [base EXCEPT !.paths = Files, !.files = Files,
                                                   !.created = Files, !.attempt = 1], df)
    /\ UNCHANGED <<hfToken, entry, health, window>>

\* Client.connect of a caller of initializeClient / getGradioClient
\* (service, process.js, server.js) settles, and that caller continues
ConnectSettle(r, I) ==
    /\ req[r].pc = "init"
    /\ req[r].ep # "vton"
    /\ LET p == req[r].awaiting
           e == req[r].ep
       IN  \/ /\ client' = [client EXCEPT ![e] = p]
              /\ prom' = [prom EXCEPT ![p].st = "settled"]
              /\ req' = [req EXCEPT ![r] = StartPredict(req[r], p)]
           \/ \E m \in I.cmsgs, df \in I.dfs :
                /\ prom' = [prom EXCEPT ![p].st = "settled"]
                /\ req' = [req EXCEPT ![r] =
                      Fail(req[r],
                           IF e = "route" THEN <<"AI service connection failed">> \o m ELSE m,
                           "connect", df)]
                /\ UNCHANGED client
    /\ UNCHANGED <<clientInitPromise, nextProm, hfToken, entry, health, window>>

\* api/vton-process.js: the connect inside the shared initialization settles
VtonConnectSettle(p, I) ==
    /\ prom[p].st = "pending"
    /\ prom[p].ep = "vton"
    /\ \/ /\ client' = [client EXCEPT !["vton"] = p]
          /\ prom' = [prom EXCEPT ![p].st = "ok"]
          /\ UNCHANGED clientInitPromise
       \/ \E m \in I.cmsgs :
            /\ client' = [client EXCEPT !["vton"] = 0]
            /\ clientInitPromise' = 0
            /\ prom' = [prom EXCEPT ![p].st = "fail", ![p].err = m]
    /\ UNCHANGED <<req, nextProm, hfToken, entry, health, window>>

\* api/vton-process.js: a caller awaiting the shared promise resumes
VtonResume(r, I) ==
    /\ req[r].pc = "init"
    /\ req[r].ep = "vton"
    /\ LET p == req[r].awaiting
           \* the rejection value is unreachable once its last holder has read it
           lastHolder == clientInitPromise # p
                         /\ \A q \in Req \ {r} : req[q].awaiting # p
       IN  \/ /\ prom[p].st = "ok"
              /\ req' = [req EXCEPT ![r] = StartPredict(req[r], p)]
              /\ UNCHANGED prom
           \/ /\ prom[p].st = "fail"
              /\ \E df \in I.dfs :
                   req' = [req EXCEPT ![r] = VariantFail(req[r], prom[p].err, "connect", df)]
              /\ prom' = IF lastHolder THEN [prom EXCEPT ![p].err = <<>>] ELSE prom
    /\ UNCHANGED <<client, clientInitPromise, nextProm, hfToken, entry, health, window>>

\* the predict call resolves before the timer fires: extraction, then the
\* result fetch starts (or, for a local path in a variant, is done at once)
PredictResolve(r, I) ==
    /\ req[r].pc = "predict"
    /\ LET e == req[r].ep
           rec == [req[r] EXCEPT !.timer = IF e = "route" THEN ClearTimer(@) ELSE @,
                                 !.predictCall = "settled"]
       IN  \E it \in I.items :
             LET ref == IF e = "route" THEN ServiceExtract(it) ELSE VariantExtract(it)
                 got == [rec EXCEPT !.item = it, !.ref = ref]
                 disk == [got EXCEPT !.via = "disk"]
             IN  IF ref = ""
                 THEN \E df \in I.dfs :
                        req' = [req EXCEPT ![r] = Fail(got, InvalidMsg(e), "invalid", df)]
                 ELSE IF ~UsesHttp(e, ref)
                 THEN \E df \in I.dfs :
                        \/ \E b \in I.buffers :
                             req' = [req EXCEPT ![r] = Done(Fetched(disk, b), OK200, df)]
                        \/ req' = [req EXCEPT ![r] = Fail(disk, FsReadMsg, "read", df)]
                 ELSE req' = [req EXCEPT ![r] = [got EXCEPT !.pc = "download", !.via = "http"]]
    /\ UNCHANGED <<client, clientInitPromise, prom, nextProm, hfToken, entry, health, window>>

\* the predict call rejects before the timer fires, with an Error or with a
\* value that has no message
PredictReject(r, I) ==
    /\ req[r].pc = "predict"
    /\ \E m \in I.msgs \cup I.nomsg, df \in I.dfs :
         req' = [req EXCEPT ![r] =
                   Fail([req[r] EXCEPT !.predictCall = "settled"], m, "predict", df)]
    /\ UNCHANGED <<client, clientInitPromise, prom, nextProm, hfToken, entry, health, window>>

\* the timeout timer fires while the predict call is still pending
TimerFire(r, I) ==
    /\ req[r].pc = "predict"
    /\ req[r].timer = "pending"
    /\ \E df \in I.dfs :
         req' = [req EXCEPT ![r] =
                   Fail([req[r] EXCEPT !.timer = "fired", !.timedOut = TRUE],
                        TimeoutMsg(req[r].ep), "timeout", df)]
    /\ UNCHANGED <<client, clientInitPromise, prom, nextProm, hfToken, entry, health, window>>

\* mutation: the settlement that comes last decides the race again
RacedLastWins(rec, ignored, resumed) == resumed

\* Promise.race: a promise settles once; when the timer has already rejected
\* the race, the settlement of the other contestant is ignored
Raced(rec, ignored, resumed) ==
    IF rec.timer = "fired" THEN ignored ELSE resumed

\* the abandoned predict call resolves or rejects after the timer has fired
\* and the request has been answered
LatePredictSettle(r, I) ==
    /\ req[r].pc = "done"
    /\ req[r].predictCall = "pending"
    /\ LET rec == [req[r] EXCEPT !.predictCall = "late"]
       IN  \/ req' = [req EXCEPT ![r] = Raced(req[r], rec, [rec EXCEPT !.pc = "download"])]
           \/ \E m \in I.cmsgs :
                req' = [req EXCEPT ![r] = Raced(req[r], rec, Fail(rec, m, "predict", {}))]
    /\ UNCHANGED <<client, clientInitPromise, prom, nextProm, hfToken, entry, health, window>>

\* processVirtualTryOn of a variant: the timer nobody cancelled fires after
\* the request has been answered; its reject finds the race already settled
LateTimerFire(r) ==
    /\ req[r].pc = "done"
    /\ req[r].timer = "pending"
    /\ req' = [req EXCEPT ![r].timer = "expired"]
    /\ UNCHANGED <<client, clientInitPromise, prom, nextProm, hfToken, entry, health, window>>

\* the HTTP GET of the result settles
DownloadSettle(r, I) ==
    /\ req[r].pc = "download"
    /\ \E df \in I.dfs :
         \* the reference is out of use once the GET has settled
         LET rec == [req[r] EXCEPT !.item = NoItem, !.ref = ""]
         IN  \/ \E b \in I.buffers :
                  req' = [req EXCEPT ![r] = Done(Fetched(rec, b), OK200, df)]
             \/ \E m \in I.msgs :
                  req' = [req EXCEPT ![r] = Fail(rec, m, "download", df)]
    /\ UNCHANGED <<client, clientInitPromise, prom, nextProm, hfToken, entry, health, window>>

\* VirtualTryOnService: the backoff delay elapses, callGradioAPI runs again
BackoffDone(r, I) ==
    /\ req[r].pc = "backoff"
    /\ AcquirePlain(r, [req[r] EXCEPT !.attempt = @ + 1, !.timer = "none",
                                      !.predictCall = "none", !.delay = 0,
                                      !.item = NoItem, !.ref = "", !.via = "none",
                                      !.cause = "none", !.remoteErr = <<>>])
    /\ UNCHANGED <<hfToken, entry, health, window>>

\* the promises something still refers to, given the requests reqs and the
\* health request hl
LiveProms(reqs, hl) ==
    {p \in Proms :
        \/ \E e \in EP : client[e] = p
        \/ clientInitPromise = p
        \/ hl.awaiting = p
        \/ \E q \in Req : p \in {reqs[q].awaiting, reqs[q].joined, reqs[q].handle}}

\* promises nothing refers to are garbage: their identities are free again
Collected(reqs, hl) ==
    LET live == LiveProms(reqs, hl)
        top == IF live = {} THEN 0 ELSE CHOOSE p \in live : \A q \in live : q <= p
    IN  /\ nextProm' = top + 1
        /\ prom' = [p \in Proms |-> IF p > top THEN UnusedProm ELSE prom[p]]

\* the response has been sent; the slot takes the next request
Recycle(r) ==
    /\ req[r].pc = "done"
    /\ req' = [req EXCEPT ![r] = IdleReq]
    /\ Collected([req EXCEPT ![r] = IdleReq], health)
    /\ UNCHANGED <<client, clientInitPromise, hfToken, entry, health, window>>

\* a health request arrives.  api/health.js (deployed beside process.js and
\* vton-process.js) and GET /api/health of server.js answer at once; GET
\* /health of the route calls healthCheck, which calls initializeClient
HealthArrive ==
    /\ entry \in EP
    /\ health.pc = "idle"
    /\ IF entry # "route"
       THEN /\ health' = [health EXCEPT !.pc = "done", !.status = 200,
                                        !.configured = hfToken]
            /\ UNCHANGED <<client, prom, nextProm>>
       ELSE IF client["route"] # 0
       THEN /\ health' = [health EXCEPT !.pc = "done", !.status = 200]
            /\ UNCHANGED <<client, prom, nextProm>>
       ELSE /\ nextProm <= MaxProm
            /\ prom' = [prom EXCEPT ![nextProm] =
                           [st |-> "pending", ep |-> "route", net |-> TRUE, err |-> <<>>]]
            /\ nextProm' = nextProm + 1
            /\ health' = [health EXCEPT !.pc = "init", !.awaiting = nextProm]
            /\ UNCHANGED client
    /\ UNCHANGED <<req, clientInitPromise, hfToken, entry, window>>

\* Client.connect started by healthCheck settles: the handle is cached and
\* the answer is 200, or healthCheck returns false and the answer is 503
HealthConnectSettle ==
    /\ health.pc = "init"
    /\ LET p == health.awaiting
       IN  /\ prom' = [prom EXCEPT ![p].st = "settled"]
           /\ \/ /\ client' = [client EXCEPT !["route"] = p]
                 /\ health' = [health EXCEPT !.pc = "done", !.awaiting = 0, !.status = 200]
              \/ /\ UNCHANGED client
                 /\ health' = [health EXCEPT !.pc = "done", !.awaiting = 0, !.status = 503]
    /\ UNCHANGED <<req, clientInitPromise, nextProm, hfToken, entry, window>>

\* the health response has been sent
HealthRecycle ==
    /\ health.pc = "done"
    /\ health' = IdleHealth
    /\ Collected(req, IdleHealth)
    /\ UNCHANGED <<req, client, clientInitPromise, hfToken, entry, window>>

\* the target selectors a page passes to VTON.init ("" = option absent)
Targets == {"", "#result"}

\* first script block of public/widget.js: window.VTON = { init, process }
WidgetBlock1(w) == [w EXCEPT !.VTON = [init |-> 1, process |-> 1]]

\* second script block of public/widget.js: window.VTON = { init }
WidgetBlock2(w) == [w EXCEPT !.VTON = [init |-> 2, process |-> 0]]

\* the page executes public/widget.js, both blocks in one task
WidgetScript ==
    /\ entry = "widget"
    /\ ~window.loaded
    /\ window' = [WidgetBlock2(WidgetBlock1(window)) EXCEPT !.loaded = TRUE]
    /\ UNCHANGED <<req, client, clientInitPromise, prom, nextProm, hfToken, entry, health>>

\* the page calls VTON.init({ target: t }): the block that defined init
\* stores the selector in its own globalTargetSelector
PageCallsInit ==
    /\ window.loaded
    /\ window.call = "none"
    /\ \E t \in Targets :
         window' = IF window.VTON.init = 0
                   THEN [window EXCEPT !.call = "TypeError"]
                   ELSE [window EXCEPT !.call = "init",
                            !.globalTargetSelector[window.VTON.init] =
                                IF t # "" THEN t ELSE @]
    /\ UNCHANGED <<req, client, clientInitPromise, prom, nextProm, hfToken, entry, health>>

\* the page calls VTON.process(options): a call of an undefined property
\* raises a TypeError
PageCallsProcess ==
    /\ window.loaded
    /\ window.call \in {"none", "init"}
    /\ window' = [window EXCEPT !.call =
                     IF window.VTON.process = 0 THEN "TypeError" ELSE "process"]
    /\ UNCHANGED <<req, client, clientInitPromise, prom, nextProm, hfToken, entry, health>>

\* the inputs the environment may supply: every payload, remote error,
\* result shape, staging outcome and unlink failure
Rich ==
    [payloads |-> Payloads, msgs |-> RemoteMsgs, cmsgs |-> ConnectMsgs,
     items |-> Items, stages |-> {"ok", "person", "cloth"}, dfs |-> SUBSET Files,
     nomsg |-> {NoMessage}, buffers |-> Buffers]

\* the inputs of the concurrent exploration: valid payloads, one remote
\* error message, the result shapes that lead to distinct paths
Core ==
    [payloads |-> {MinLen}, msgs |-> {<<"boom">>}, cmsgs |-> {<<"boom">>},
     items |-> {it \in Items : it.kind # "obj"},
     stages |-> {"ok"}, dfs |-> {{}}, nomsg |-> {}, buffers |-> {<<77>>}]

\* no request is in progress, and r is the first slot
OthersIdle(r) == \A q \in Req : req[q].pc = "idle" /\ r <= q

ArriveInTurn(r) == OthersIdle(r) /\ health.pc = "idle" /\ Arrive(r, Rich)

HealthInTurn == (\A q \in Req : req[q].pc = "idle") /\ HealthArrive

\* requests handled one at a time, with every input
Next ==
    \/ \E r \in Req : ArriveInTurn(r)
    \/ \E r \in Req : ConnectSettle(r, Rich)
    \/ \E p \in Proms : VtonConnectSettle(p, Rich)
    \/ \E r \in Req : VtonResume(r, Rich)
    \/ \E r \in Req : PredictResolve(r, Rich)
    \/ \E r \in Req : PredictReject(r, Rich)
    \/ \E r \in Req : TimerFire(r, Rich)
    \/ \E r \in Req : DownloadSettle(r, Rich)
    \/ \E r \in Req : LatePredictSettle(r, Rich)
    \/ \E r \in Req : LateTimerFire(r)
    \/ \E r \in Req : BackoffDone(r, Rich)
    \/ \E r \in Req : Recycle(r)
    \/ HealthInTurn
    \/ HealthConnectSettle
    \/ HealthRecycle
    \/ WidgetScript
    \/ PageCallsInit
    \/ PageCallsProcess

Spec == Init /\ [][Next]_vars

\* POST requests interleaved in any order (health requests, the widget page
\* and the late settlements are explored by Next)
NextConc ==
    \/ \E r \in Req : Arrive(r, Core)
    \/ \E r \in Req : ConnectSettle(r, Core)
    \/ \E p \in Proms : VtonConnectSettle(p, Core)
    \/ \E r \in Req : VtonResume(r, Core)
    \/ \E r \in Req : PredictResolve(r, Core)
    \/ \E r \in Req : PredictReject(r, Core)
    \/ \E r \in Req : TimerFire(r, Core)
    \/ \E r \in Req : DownloadSettle(r, Core)
    \/ \E r \in Req : BackoffDone(r, Core)
    \/ \E r \in Req : Recycle(r)

SpecConc == Init /\ [][NextConc]_vars

TypeOK ==
    /\ \A r \in Req : req[r].pc \in {"idle", "init", "predict", "download", "backoff", "done"}
    /\ nextProm \in 1..(MaxProm + 1)
    /\ health.pc \in {"idle", "init", "done"}
    /\ window.call \in {"none", "init", "process", "TypeError"}


\* ------------------------------------------------------------------ claims
Active(r) == req[r].pc # "idle"

Finished(r) == req[r].pc = "done"

\* nothing was staged and the remote backend was not contacted
Untouched(r) ==
    req[r].created = {} /\ req[r].nConnect = 0 /\ req[r].nPredict = 0

\* C1: at every entry point a body with a missing or empty image field is
\* answered with 400, and on that path no temp file is created and neither
\* the connect nor the predict call is attempted.
C1_MissingFieldRejected ==
    \A r \in Req :
        Active(r) /\ (req[r].person = 0 \/ req[r].cloth = 0)
        => Finished(r) /\ req[r].status = 400 /\ Untouched(r)

C1_Witness ==
    \E r \in Req :
        /\ entry = "server" /\ Finished(r)
        /\ req[r].person = MinLen /\ req[r].cloth = 0
        /\ req[r].status = 400

\* C2: in the Express route, with both fields present, the request is
\* rejected with 400 (nothing staged, service not called) exactly when one of
\* the two payloads is shorter than 100 characters; otherwise processImage runs.
C2_RouteLengthBoundary ==
    \A r \in Req :
        entry = "route" /\ Active(r) /\ req[r].person # 0 /\ req[r].cloth # 0
        => /\ (req[r].person < 100 \/ req[r].cloth < 100)
                <=> (Finished(r) /\ req[r].status = 400)
           /\ (Finished(r) /\ req[r].status = 400)
                => (req[r].cause = "validation" /\ Untouched(r))
           /\ (req[r].person >= 100 /\ req[r].cloth >= 100)
                => req[r].cause # "validation"

C2_Witness ==
    \E r \in Req :
        /\ entry = "route" /\ Finished(r)
        /\ req[r].person = 99 /\ req[r].cloth = 100
        /\ req[r].status = 400

\* C3: in api/vton-process.js, api/process.js and server.js a non-empty
\* payload shorter than 100 characters is rejected with 400, nothing staged
\* and no remote call made.
C3_VariantShortPayloadRejected ==
    \A r \in Req :
        /\ entry \in Variants /\ Active(r)
        /\ req[r].person # 0 /\ req[r].cloth # 0
        /\ (req[r].person < 100 \/ req[r].cloth < 100)
        => Finished(r) /\ req[r].status = 400 /\ Untouched(r)

C5_VariantTempFilesDeleted ==
    \A r \in Req :
        entry \in Variants /\ Finished(r) /\ ~req[r].delFailed
        => req[r].files = {}

C5_Witness ==
    \E r \in Req :
        /\ entry = "proc" /\ Finished(r) /\ ~req[r].delFailed
        /\ req[r].cause = "timeout" /\ req[r].created = Files
        /\ req[r].files = {}

PendingConnects(e) == {p \in Proms : prom[p].st = "pending" /\ prom[p].ep = e /\ prom[p].net}

\* C6: in api/vton-process.js the callers that arrive while no client is
\* cached share one connect: never two connects in flight, every waiting
\* caller waits for that one, and all callers of one initialization get its
\* outcome (the handle it produced, or its error).
C6_VtonSingleFlight ==
    entry = "vton" =>
      /\ Cardinality(PendingConnects("vton")) <= 1
      /\ \A r \in Req :
           req[r].pc = "init" /\ prom[req[r].awaiting].st = "pending"
           => req[r].awaiting = clientInitPromise
      /\ \A r \in Req :
           req[r].joined # 0 /\ req[r].pc \notin {"idle", "init"}
           => \/ /\ prom[req[r].joined].st = "ok"
                 /\ req[r].handle = req[r].joined
              \/ /\ prom[req[r].joined].st = "fail"
                 /\ req[r].handle = 0
                 /\ Finished(r)
                 /\ req[r].cause \in {"connect", "init"}
      /\ \A r1 \in Req, r2 \in Req :
           /\ req[r1].joined # 0 /\ req[r1].joined = req[r2].joined
           /\ req[r1].pc \notin {"idle", "init"} /\ req[r2].pc \notin {"idle", "init"}
           => /\ req[r1].handle = req[r2].handle
              /\ req[r1].handle = 0
                   => /\ req[r1].cause = req[r2].cause
                      /\ req[r1].remoteErr = req[r2].remoteErr
                      /\ req[r1].status = req[r2].status

C6_Witness ==
    \E r1 \in Req, r2 \in Req :
        /\ entry = "vton" /\ r1 # r2
        /\ req[r1].joined # 0 /\ req[r1].joined = req[r2].joined
        /\ req[r1].pc = "predict" /\ req[r2].pc = "predict"
        /\ req[r1].handle = req[r2].handle
        /\ req[r1].nConnect + req[r2].nConnect = 1

\* C7: in VirtualTryOnService.initializeClient and in getGradioClient of
\* api/process.js and server.js, concurrent first callers do not create
\* duplicate handles: only one of them connects, and all get the same handle.
C7_PlainSingleFlight ==
    entry \in {"route", "proc", "server"} =>
      /\ Cardinality(PendingConnects(entry)) <= 1
      /\ \A r1 \in Req, r2 \in Req :
           req[r1].pc = "predict" /\ req[r2].pc = "predict"
           => req[r1].handle = req[r2].handle

\* C8: through the Express route a predict call that is still pending when
\* the timer fires ends the request with 504 at once; the attempt is never
\* retried, so no further predict call is made.
C8_RouteTimeoutNotRetried ==
    \A r \in Req :
        entry = "route" /\ req[r].timedOut
        => Finished(r) /\ req[r].status = 504 /\ req[r].cause = "timeout"

C8_Witness ==
    \E r \in Req :
        /\ entry = "route" /\ req[r].timedOut /\ Finished(r)
        /\ req[r].attempt = 1 /\ req[r].nPredict = 1
        /\ req[r].status = 504

\* C9: in api/process.js, api/vton-process.js and server.js, when the timer
\* fires before the predict call completes the response status is 504.
C9_VariantTimeoutIs504 ==
    \A r \in Req :
        entry \in Variants /\ req[r].timedOut /\ Finished(r)
        => req[r].status = 504

MentionsQuota(m) ==
    includes(toLowerCase(m), "429") \/ includes(toLowerCase(m), "quota")

\* C10: in api/process.js, api/vton-process.js and server.js a remote failure
\* whose message contains "429" or "quota", in any letter case and with any
\* other text around it, is answered with 429 and errorType quota_limit.
C10_VariantQuotaIs429 ==
    \A r \in Req :
        /\ entry \in Variants /\ Finished(r)
        /\ req[r].cause \in {"connect", "predict", "download"}
        /\ MentionsQuota(req[r].remoteErr)
        => req[r].status = 429 /\ req[r].errorType = "quota_limit"

\* C11: through the Express route a remote failure whose message contains
\* "429" or "quota" is answered with 429 and category quota_limit.
C11_RouteQuotaIs429 ==
    \A r \in Req :
        /\ entry = "route" /\ Finished(r)
        /\ req[r].cause \in {"connect", "predict", "download"}
        /\ MentionsQuota(req[r].remoteErr)
        => req[r].status = 429 /\ req[r].errorType = "quota_limit"

MentionsAuth(m) ==
    includes(toLowerCase(m), "401") \/ includes(toLowerCase(m), "unauthorized")

\* C12: at every entry point a failure whose message indicates 401 or
\* unauthorized (in any letter case), or that is caused by the missing auth
\* token, is answered with 401.
C12_AuthFailureIs401 ==
    \A r \in Req :
        /\ Finished(r)
        /\ \/ /\ req[r].cause \in {"connect", "predict", "download"}
              /\ MentionsAuth(req[r].remoteErr)
           \/ req[r].cause = "init" /\ ~hfToken
        => req[r].status = 401

\* the message indicates a refused connection or a failed fetch
MentionsUnreachable(m) ==
    includes(m, "ECONNREFUSED") \/ includes(m, "Failed to fetch")

\* C13: at every entry point a failure to reach the remote backend (the
\* connect failed, or the message indicates a refused connection or a failed
\* fetch) that matches no timeout, quota or auth condition is answered with 503.
C13_UnreachableIs503 ==
    \A r \in Req :
        /\ Finished(r)
        /\ \/ req[r].cause = "connect"
           \/ /\ req[r].cause \in {"predict", "download"}
              /\ MentionsUnreachable(req[r].remoteErr)
        /\ ~req[r].timedOut
        /\ ~MentionsQuota(req[r].remoteErr)
        /\ ~MentionsAuth(req[r].remoteErr)
        => req[r].status = 503

\* C14: at every entry point, whatever the remote backend does (resolve,
\* reject with an Error, reject with a value that has no message, never
\* answer), the error-classification code raises no exception of its own and
\* the request ends with exactly one response, never zero and never two.
C14_OneResponseNoOwnError ==
    \A r \in Req :
        /\ ~req[r].ownError
        /\ req[r].responses = IF Finished(r) THEN 1 ELSE 0

\* C15: a health request has no side effects: the step that serves it leaves
\* the cached handle and all other server state unchanged and starts no
\* connection to the remote backend.
C15_HealthNoSideEffects ==
    [][health' # health /\ health'.pc # "idle"
       => UNCHANGED <<req, client, clientInitPromise, prom, nextProm>>]_vars

\* the bytes a base64 text stands for (64 is the padding character)
Base64Decode(s) ==
    LET pads == Cardinality({i \in 1..Len(s) : s[i] = 64})
        val(c) == IF c = 64 THEN 0 ELSE c
        v(k) == val(s[4 * k - 3]) * 262144 + val(s[4 * k - 2]) * 4096
                + val(s[4 * k - 1]) * 64 + val(s[4 * k])
        byte(j) == LET k == (j + 2) \div 3
                       o == (j - 1) % 3
                   IN  IF o = 0 THEN v(k) \div 65536
                       ELSE IF o = 1 THEN (v(k) \div 256) % 256
                       ELSE v(k) % 256
    IN  [j \in 1..(3 * (Len(s) \div 4) - pads) |-> byte(j)]

\* C16: when the remote call succeeded and the result bytes were fetched, the
\* response is 200 and its result field is the base64 text of exactly the
\* bytes obtained from the remote result reference.
C16_ResultIsBase64OfFetchedBytes ==
    \A r \in Req :
        Finished(r) /\ req[r].got
        => /\ req[r].status = 200
           /\ Len(req[r].result) % 4 = 0
           /\ Base64Decode(req[r].result) = req[r].fetched

C16_Witness ==
    \E r \in Req :
        /\ entry = "route" /\ Finished(r) /\ req[r].got
        /\ req[r].attempt = 2
        /\ req[r].fetched = <<77, 255>>
        /\ req[r].result = <<19, 31, 60, 64>>
        /\ req[r].status = 200

\* C17: once public/widget.js has executed, the global VTON object has both
\* init and process.
C17_WidgetExposesInitAndProcess ==
    window.loaded => window.VTON.init # 0 /\ window.VTON.process # 0

\* C18: in api/vton-process.js, after a failed initialization (connect
\* rejected, or token not configured) gradioClient and clientInitPromise are
\* both null, so that the next call starts a new initialization.
C18_VtonFailedInitCleared ==
    entry = "vton" /\ nextProm > 1 /\ prom[nextProm - 1].st = "fail"
    => client["vton"] = 0 /\ clientInitPromise = 0

\* C19: once a handle is cached (VirtualTryOnService.client, gradioClient),
\* no later step replaces it with another handle or resets it to null.
C19_CachedHandleStable ==
    [][\A e \in EP : client[e] # 0 => client'[e] = client[e]]_vars

\* C20: in VirtualTryOnService.callGradioAPI the timer of an attempt is
\* cancelled as soon as the predict call settles first, so no timer of a
\* processImage call is pending while it downloads, backs off, reconnects
\* for a retry, or after it has settled.
C20_ServiceTimerCancelled ==
    \A r \in Req :
        entry = "route" /\ req[r].pc # "predict"
        => req[r].timer # "pending"

C20_Witness ==
    \E r \in Req :
        /\ entry = "route" /\ Finished(r)
        /\ req[r].attempt = 2 /\ req[r].nPredict = 2
        /\ req[r].cause = "predict" /\ ~req[r].timedOut
        /\ req[r].timer = "cleared"

\* C21: in processVirtualTryOn of api/vton-process.js, api/process.js and
\* server.js, when the inference call completes before the timer fires the
\* timer is cancelled: no timeout timer of the request is pending once the
\* response has been sent.
C21_VariantTimerCancelled ==
    \A r \in Req :
        entry \in Variants /\ Finished(r)
        => req[r].timer # "pending"

\* C22: when the timer fires first the request is abandoned with a timeout
\* error, and a predict call that settles afterwards has no effect: the
\* response already determined is not changed, no second response is sent,
\* no temp file is recreated and the cached handle is not changed.
C22_LatePredictHasNoEffect ==
    [][\A r \in Req :
          req[r].timedOut
          => /\ req[r].pc = "done" /\ req[r].cause = "timeout"
             /\ req'[r].pc # "idle"
                  => /\ req'[r].pc = "done"
                     /\ req'[r].status = req[r].status
                     /\ req'[r].errorType = req[r].errorType
                     /\ req'[r].responses = req[r].responses
                     /\ req'[r].files = req[r].files
                     /\ req'[r].got = req[r].got
                     /\ client' = client]_vars

C22_Witness ==
    \E r \in Req :
        /\ entry = "vton" /\ Finished(r) /\ req[r].timedOut
        /\ req[r].predictCall = "late"
        /\ req[r].status = 504 /\ req[r].responses = 1

\* the error of the attempt that ended a request of the route
LastError(r) ==
    IF req[r].cause = "invalid" THEN ServiceExtractMsg ELSE req[r].remoteErr

\* C23: in VirtualTryOnService.callGradioAPI every failure other than the
\* prediction timeout (connect error, predict rejection, malformed response,
\* download failure) on an attempt below retryAttempts is followed by another
\* attempt; a processImage call never makes more than retryAttempts attempts;
\* and the error surfaced after the last attempt is that attempt's error.
C23_ServiceRetriesToLimit ==
    \A r \in Req :
        entry = "route"
        => /\ req[r].attempt <= retryAttempts
           /\ req[r].nPredict <= retryAttempts
           /\ Finished(r) /\ req[r].cause \in {"connect", "predict", "invalid", "download"}
                => /\ req[r].attempt = retryAttempts
                   /\ req[r].status = RouteClassify(ServiceFinalError(LastError(r))).status

\* C24: the waits between the attempts of callGradioAPI follow exponential
\* backoff with a base of 2000 ms: 2000 ms before the first retry, and twice
\* the previous wait before each later one.
C24_BackoffStartsAtBase ==
    \A r \in Req :
        req[r].pc = "backoff"
        => req[r].delay = 2000 * (2 ^ (req[r].attempt - 1))

\* C25: an "invalid result" error (no usable first output entry) is
\* permanent at every entry point: no further predict call is made for the
\* request after it, and the response status is 500.
C25_InvalidResultIsPermanent ==
    [][\A r \in Req :
          req[r].cause = "invalid"
          => /\ req'[r].nPredict <= req[r].nPredict
             /\ Finished(r) => req[r].status = 500]_vars

\* the reference the order name, plain string, url prescribes
ExpectedRef(it) ==
    IF it.kind = "obj" /\ it.name # "" THEN it.name
    ELSE IF it.kind = "str" THEN it.name
    ELSE IF it.kind = "obj" THEN it.url
    ELSE ""

\* C26: in processVirtualTryOn of the three variants the reference is taken
\* from the first entry of result.data in the order: object with a non-empty
\* name (name wins over url), else plain string, else object with a url; with
\* no entry or no matching shape an invalid-result error is raised and no
\* fetch is attempted.
C26_VariantExtractionOrder ==
    \A r \in Req :
        entry \in Variants /\ req[r].item # NoItem
        => IF ExpectedRef(req[r].item) # ""
           THEN req[r].ref = ExpectedRef(req[r].item) /\ req[r].cause # "invalid"
           ELSE Finished(r) /\ req[r].cause = "invalid" /\ req[r].via = "none"

C26_Witness ==
    \E r \in Req :
        /\ entry = "server" /\ req[r].pc = "download"
        /\ req[r].item = [kind |-> "obj", name |-> "http", url |-> "local", path |-> ""]
        /\ req[r].ref = "http"

\* C27: VirtualTryOnService.callGradioAPI accepts the shapes the variants
\* accept: an object exposing any of name / url / path, or a plain string,
\* yields a reference; only an entry with none of these raises the
\* extraction error.
C27_ServiceAcceptsSameShapes ==
    \A r \in Req :
        /\ entry = "route" /\ req[r].item # NoItem
        /\ \/ req[r].item.kind = "str" /\ req[r].item.name # ""
           \/ /\ req[r].item.kind = "obj"
              /\ req[r].item.name # "" \/ req[r].item.url # "" \/ req[r].item.path # ""
        => req[r].ref # "" /\ req[r].cause # "invalid"

\* C28: at every entry point a reference beginning with "http" is fetched
\* with an HTTP GET and any other reference is read from disk without an
\* HTTP request.
C28_FetchChosenByReference ==
    \A r \in Req :
        req[r].ref # "" /\ req[r].via # "none"
        => /\ req[r].ref = "http" => req[r].via = "http"
           /\ req[r].ref = "local" => req[r].via = "disk"

\* the error that made the request fail, before any cleanup
OriginalError(r) ==
    CASE req[r].cause = "stage"   -> FsMsg
      [] req[r].cause = "init"    -> TokenMissingMsg
      [] req[r].cause = "timeout" -> TimeoutMsg(req[r].ep)
      [] req[r].cause = "invalid" -> InvalidMsg(req[r].ep)
      [] req[r].cause = "read"    -> FsReadMsg
      [] OTHER                    -> req[r].remoteErr

\* the response the classification of that error gives
OriginalOutcome(r) ==
    IF req[r].ep = "route"
    THEN RouteClassify(IF OriginalError(r) = NoMessage THEN TypeErrorMsg
                       ELSE ServiceFinalError(OriginalError(r)))
    ELSE Classify(req[r].ep, VariantTranslate(req[r].ep, OriginalError(r)))

\* C29: a failure while deleting a temp file never changes the outcome: a
\* request that had succeeded still answers 200 with the result, and one that
\* had failed answers with the classification of its original error.
C29_DeleteFailureKeepsOutcome ==
    \A r \in Req :
        Finished(r) /\ req[r].delFailed
        => IF req[r].got
           THEN req[r].status = 200 /\ Base64Decode(req[r].result) = req[r].fetched
           ELSE /\ req[r].cause \notin {"none", "validation"}
                /\ req[r].status = OriginalOutcome(r).status
                /\ req[r].errorType = OriginalOutcome(r).errorType

C29_Witness ==
    \E r \in Req :
        /\ entry = "server" /\ Finished(r) /\ req[r].delFailed
        /\ req[r].timedOut /\ req[r].status = 504
        /\ req[r].delFailures = {"person"} /\ req[r].files = Files

\* C30: in every cleanup block the two temp files are removed independently:
\* a failed delete of the person file does not prevent the attempt on the
\* garment file, so only files whose own delete failed are left on disk.
C30_IndependentCleanup ==
    \A r \in Req :
        Finished(r) => req[r].files \subseteq req[r].delFailures

=============================================================================
